---- MODULE Spec2Model ----
(***************************************************************************)
(* The in-scene terminal of neon-city (src/src/terminal.rs) as a state     *)
(* machine.  A String is a sequence of one-character strings; the em dash  *)
(* U+2014 of two responses is the single element "U+2014".  One frame of   *)
(* the host loop is: keyboard_input (the key events of the frame arrive    *)
(* and ButtonInput<KeyCode> is refreshed), then the two Update systems     *)
(* handle_input and update_terminal, which src/src/main.rs:16 registers    *)
(* as a plain tuple, i.e. with no ordering between them.                   *)
(***************************************************************************)
EXTENDS Integers, Sequences, FiniteSets, TLC

VARIABLES
    input,      \* TerminalState.input
    sections,   \* Text.sections[i].value, i = 0 (transcript), 1 (current line)
    keys,       \* ButtonInput<KeyCode>: [pressed, just_pressed], for the keys the systems query
    key_evr,    \* the frame's KeyboardInput events handle_input's EventReader has not read
    ran,        \* the Update systems that have run in the current frame
    exited,     \* std::process::exit was called
    ticks,      \* frames started
    submitted,  \* history: the buffer as the latest submit found it
    edits,      \* history: what was typed since the last submit, and the erase presses after it
    writers     \* history: the systems that changed each text region in the current frame

vars == <<input, sections, keys, key_evr, ran, exited, ticks, submitted, edits, writers>>

\* Bounds of the model.
MaxTicks == 3
MaxPad == 1

(***************************************************************************)
(* Literals of the source.                                                 *)
(***************************************************************************)
InitialTranscript ==
    <<"I", "n", "i", "t", "i", "a", "l", "i", "z", "i", "n", "g", ".", ".", ".", "\n", ">", " ", "W", "e", "l", "c", "o", "m", "e", " ", "t", "o", " ", "t", "h", "e", " ", "d", "a", "r", "k", " ", "p", "o", "o", "l", ",", " ", "r", "u", "n", "n", "e", "r", ".", "\n">>

Prompt ==
    <<">", " ">>

CmdNmap ==
    <<"n", "m", "a", "p", " ", "n", "e", "o", "t", "e", "c", "h", "l", "a", "b", "s", ".", "c", "o", "m">>

RespNmap ==
    <<">", " ", "S", "c", "a", "n", "n", "i", "n", "g", " ", "N", "e", "o", "T", "e", "c", "h", " ", "L", "a", "b", "s", ".", ".", ".", "\n", ">", " ", "P", "o", "r", "t", " ", "8", "0", ":", " ", "H", "T", "T", "P", " ", "(", "v", "u", "l", "n", "e", "r", "a", "b", "l", "e", ")">>

CmdSsh ==
    <<"s", "s", "h", " ", "n", "e", "o", "t", "e", "c", "h", "l", "a", "b", "s", ".", "c", "o", "m">>

RespSsh ==
    <<">", " ", "C", "o", "n", "n", "e", "c", "t", "e", "d", "U+2014", "a", "u", "t", "h", " ", "r", "e", "q", "u", "i", "r", "e", "d">>

CmdExploit ==
    <<"e", "x", "p", "l", "o", "i", "t">>

RespExploit ==
    <<">", " ", "F", "i", "r", "e", "w", "a", "l", "l", " ", "b", "r", "e", "a", "c", "h", "e", "d">>

CmdWget ==
    <<"w", "g", "e", "t", " ", "d", "a", "t", "a">>

RespWget ==
    <<">", " ", "5", "0", "0", "M", "B", " ", "d", "o", "w", "n", "l", "o", "a", "d", "e", "d", "U+2014", "t", "r", "a", "c", "e", " ", "a", "c", "t", "i", "v", "e", "!">>

CmdCloak ==
    <<"c", "l", "o", "a", "k">>

RespCloak ==
    <<">", " ", "T", "r", "a", "c", "e", " ", "e", "v", "a", "d", "e", "d">>

CmdExit ==
    <<"e", "x", "i", "t">>

UnknownPrefix ==
    <<">", " ", "U", "n", "k", "n", "o", "w", "n", " ", "c", "o", "m", "m", "a", "n", "d", ":", " ">>

UnknownSuffix ==
    <<".", " ", "T", "y", "p", "e", " ", "'", "h", "e", "l", "p", "'", " ", "f", "o", "r", " ", "o", "p", "t", "i", "o", "n", "s", ".">>

(***************************************************************************)
(* Characters and strings.                                                 *)
(***************************************************************************)
None == "None"

\* fn keycode_to_char(key_code: KeyCode) -> Option<char>
keycode_to_char(k) ==
    CASE k = "KeyA" -> "a"
      [] k = "KeyB" -> "b"
      [] k = "KeyC" -> "c"
      [] k = "KeyD" -> "d"
      [] k = "KeyE" -> "e"
      [] k = "KeyF" -> "f"
      [] k = "KeyG" -> "g"
      [] k = "KeyH" -> "h"
      [] k = "KeyI" -> "i"
      [] k = "KeyJ" -> "j"
      [] k = "KeyK" -> "k"
      [] k = "KeyL" -> "l"
      [] k = "KeyM" -> "m"
      [] k = "KeyN" -> "n"
      [] k = "KeyO" -> "o"
      [] k = "KeyP" -> "p"
      [] k = "KeyQ" -> "q"
      [] k = "KeyR" -> "r"
      [] k = "KeyS" -> "s"
      [] k = "KeyT" -> "t"
      [] k = "KeyU" -> "u"
      [] k = "KeyV" -> "v"
      [] k = "KeyW" -> "w"
      [] k = "KeyX" -> "x"
      [] k = "KeyY" -> "y"
      [] k = "KeyZ" -> "z"
      [] k = "Digit0" -> "0"
      [] k = "Digit1" -> "1"
      [] k = "Digit2" -> "2"
      [] k = "Digit3" -> "3"
      [] k = "Digit4" -> "4"
      [] k = "Digit5" -> "5"
      [] k = "Digit6" -> "6"
      [] k = "Digit7" -> "7"
      [] k = "Digit8" -> "8"
      [] k = "Digit9" -> "9"
      [] k = "Space" -> " "
      [] k = "Period" -> "."
      [] OTHER -> None

\* char::is_alphanumeric, on the characters that occur
is_alphanumeric(c) ==
    c \in {"a", "b", "c", "d", "e", "f", "g", "h", "i", "j", "k", "l", "m",
           "n", "o", "p", "q", "r", "s", "t", "u", "v", "w", "x", "y", "z",
           "A", "B", "C", "D", "E", "F", "G", "H", "I", "J", "K", "L", "M",
           "N", "O", "P", "Q", "R", "S", "T", "U", "V", "W", "X", "Y", "Z",
           "0", "1", "2", "3", "4", "5", "6", "7", "8", "9"}

\* char::is_whitespace, on the characters that occur
is_whitespace(c) ==
    c \in {" ", "\n", "\t", "\r"}

\* String::push
push(s, c) ==
    Append(s, c)

\* Variant of pop: the first character is removed (String::remove(0)).
pop_front(s) ==
    IF s = <<>> THEN s ELSE Tail(s)

\* String::pop: the last character is removed, if there is one
pop(s) ==
    IF s = <<>> THEN s ELSE SubSeq(s, 1, Len(s) - 1)

RECURSIVE trim_start(_)
trim_start(s) ==
    IF s # <<>> /\ is_whitespace(Head(s)) THEN trim_start(Tail(s)) ELSE s

RECURSIVE trim_end(_)
trim_end(s) ==
    IF s # <<>> /\ is_whitespace(s[Len(s)]) THEN trim_end(pop(s)) ELSE s

(***************************************************************************)
(* Key events and ButtonInput<KeyCode>.                                    *)
(***************************************************************************)
Pressed(k) ==
    [key_code |-> k, state |-> "Pressed"]

Released(k) ==
    [key_code |-> k, state |-> "Released"]

\* Variant of is_pressed: the state of the event is not looked at.
is_pressed_or_released(ev) ==
    ev.state \in {"Pressed", "Released"}

is_pressed(ev) ==
    ev.state = "Pressed"

\* The keys the systems ask ButtonInput about.
QueriedKeys ==
    {"Enter", "Backspace"}

\* ButtonInput::press / ButtonInput::release for one event
button_input(b, ev) ==
    IF ev.key_code \notin QueriedKeys THEN b
    ELSE IF is_pressed(ev)
         THEN IF ev.key_code \in b.pressed THEN b
              ELSE [pressed |-> b.pressed \cup {ev.key_code},
                    just_pressed |-> b.just_pressed \cup {ev.key_code}]
         ELSE [b EXCEPT !.pressed = @ \ {ev.key_code}]

RECURSIVE button_inputs(_, _)
button_inputs(b, evs) ==
    IF evs = <<>> THEN b ELSE button_inputs(button_input(b, Head(evs)), Tail(evs))

\* keys.just_pressed(key)
just_pressed(k) ==
    k \in keys.just_pressed

(***************************************************************************)
(* The inputs of a frame.                                                  *)
(***************************************************************************)
MappedKeys ==
    {"KeyA", "KeyB", "KeyC", "KeyD", "KeyE", "KeyF", "KeyG", "KeyH", "KeyI",
     "KeyJ", "KeyK", "KeyL", "KeyM", "KeyN", "KeyO", "KeyP", "KeyQ", "KeyR",
     "KeyS", "KeyT", "KeyU", "KeyV", "KeyW", "KeyX", "KeyY", "KeyZ",
     "Digit0", "Digit1", "Digit2", "Digit3", "Digit4", "Digit5", "Digit6",
     "Digit7", "Digit8", "Digit9", "Space", "Period"}

KeyOf(c) ==
    CHOOSE k \in MappedKeys : keycode_to_char(k) = c

\* The press events that type the text t, one per character.
Typing(t) ==
    [i \in 1..Len(t) |-> Pressed(KeyOf(t[i]))]

Spaces(n) ==
    [i \in 1..n |-> " "]

Foo ==
    <<"f", "o", "o">>

Help ==
    <<"h", "e", "l", "p">>

\* Texts typed within one frame: the commands, two unknown ones, commands with
\* spaces before, after or around them, and spaces alone.
Texts ==
    {CmdNmap, CmdSsh, CmdExploit, CmdWget, CmdCloak, CmdExit, Foo, Help}
    \cup {Spaces(i) \o CmdExploit \o Spaces(j) :
            i \in {0, MaxPad}, j \in {0, MaxPad}}
    \cup {Spaces(i) \o CmdExit : i \in 1..MaxPad}
    \cup {Spaces(n) : n \in 1..(MaxPad + 1)}

\* Frames of control keys, of an unmapped key, of a released mapped key.
ControlFrames ==
    { <<>>,
      <<Pressed("Enter")>>,
      <<Pressed("Backspace")>>,
      <<Released("Enter"), Pressed("Enter")>>,
      <<Released("Backspace"), Pressed("Backspace")>>,
      <<Pressed("ShiftLeft")>>,
      <<Released("KeyA")>> }

\* Frames that mix typing with a control key.
MixedFrames ==
    { Typing(Foo) \o <<Pressed("Backspace")>>,
      <<Pressed("Backspace")>> \o Typing(Foo),
      <<Pressed("KeyF"), Pressed("Backspace"), Pressed("KeyO"), Pressed("KeyO")>>,
      Typing(CmdExploit) \o <<Pressed("Enter")>>,
      <<Pressed("KeyA"), Released("KeyA"), Pressed("ShiftLeft"), Pressed("Digit7")>> }

FrameInputs ==
    {Typing(t) : t \in Texts} \cup ControlFrames \cup MixedFrames

(***************************************************************************)
(* The key-to-character table of the specification, and what a frame's     *)
(* events type by it.                                                      *)
(***************************************************************************)
\* The key-to-character table: a to z, 0 to 9, space and period.
TableKeys ==
    <<"KeyA", "KeyB", "KeyC", "KeyD", "KeyE", "KeyF", "KeyG", "KeyH", "KeyI",
      "KeyJ", "KeyK", "KeyL", "KeyM", "KeyN", "KeyO", "KeyP", "KeyQ", "KeyR",
      "KeyS", "KeyT", "KeyU", "KeyV", "KeyW", "KeyX", "KeyY", "KeyZ",
      "Digit0", "Digit1", "Digit2", "Digit3", "Digit4", "Digit5", "Digit6",
      "Digit7", "Digit8", "Digit9", "Space", "Period">>

TableChars ==
    <<"a", "b", "c", "d", "e", "f", "g", "h", "i",
      "j", "k", "l", "m", "n", "o", "p", "q", "r",
      "s", "t", "u", "v", "w", "x", "y", "z",
      "0", "1", "2", "3", "4", "5", "6",
      "7", "8", "9", " ", ".">>

InTable(k) ==
    \E i \in 1..Len(TableKeys) : TableKeys[i] = k

TableChar(k) ==
    TableChars[CHOOSE i \in 1..Len(TableKeys) : TableKeys[i] = k]

IsMappedPress(ev) ==
    ev.state = "Pressed" /\ InTable(ev.key_code)

\* The characters a frame's events type: those of its pressed events of mapped
\* keys, in arrival order.
TypedChars(evs) ==
    LET typing == SelectSeq(evs, IsMappedPress)
    IN  [i \in 1..Len(typing) |-> TableChar(typing[i].key_code)]

(***************************************************************************)
(* The program.                                                            *)
(***************************************************************************)
Systems ==
    {"handle_input", "update_terminal"}

\* History: nothing typed and nothing erased yet.
NoEdits ==
    [typed |-> <<>>, erases |-> 0, ordered |-> TRUE]

\* History: the frame's events evs are added to the edits h. The edits stay
\* ordered while every character press comes before every erase press.
Edited(h, evs, erased) ==
    LET t == TypedChars(evs)
        first == {i \in 1..Len(evs) : evs[i] = Pressed("Backspace")}
        late == {i \in 1..Len(evs) :
                   IsMappedPress(evs[i]) /\ \E j \in first : j < i}
    IN  [typed   |-> h.typed \o t,
         erases  |-> h.erases + (IF erased THEN 1 ELSE 0),
         ordered |-> h.ordered /\ (t = <<>> \/ h.erases = 0) /\ (~erased \/ late = {})]

Regions ==
    {"LineBuffer", "Transcript", "CurrentLine"}

\* History: no system has changed a region in this frame.
NoWriters ==
    [r \in Regions |-> {}]

\* History: system sys has left buffer b and text sections t.
Wrote(sys, b, t) ==
    [r \in Regions |->
       IF \/ r = "LineBuffer" /\ b # input
          \/ r = "Transcript" /\ t[0] # sections[0]
          \/ r = "CurrentLine" /\ t[1] # sections[1]
       THEN writers[r] \cup {sys}
       ELSE writers[r]]

\* setup_terminal: TerminalState::default() and the two text sections
Init ==
    /\ input = <<>>
    /\ sections = [i \in {0, 1} |-> IF i = 0 THEN InitialTranscript ELSE Prompt]
    /\ keys = [pressed |-> {}, just_pressed |-> {}]
    /\ key_evr = <<>>
    /\ ran = Systems
    /\ exited = FALSE
    /\ ticks = 0
    /\ submitted = <<>>
    /\ edits = NoEdits
    /\ writers = NoWriters

\* A frame begins: its key events arrive; ButtonInput forgets the last frame's
\* just_pressed and takes the events in.
keyboard_input ==
    /\ ~exited
    /\ ran = Systems
    /\ ticks < MaxTicks
    /\ \E evs \in FrameInputs :
         /\ key_evr' = evs
         /\ keys' = button_inputs([pressed |-> keys.pressed, just_pressed |-> {}], evs)
    /\ ran' = {}
    /\ ticks' = ticks + 1
    /\ writers' = NoWriters
    /\ UNCHANGED <<input, sections, exited, submitted, edits>>

\* Variant of read_events: only the first event of the frame is read.
read_first_event(s, evs) ==
    IF evs = <<>> THEN s
    ELSE LET ev == Head(evs)
             c == keycode_to_char(ev.key_code)
         IN  IF /\ is_pressed(ev)
                /\ c # None
                /\ (is_alphanumeric(c) \/ is_whitespace(c) \/ c = ".")
             THEN push(s, c)
             ELSE s

\* Variant of read_events: the filter admits alphanumeric and whitespace
\* characters only, not '.'.
RECURSIVE read_events_without_period(_, _)
read_events_without_period(s, evs) ==
    IF evs = <<>> THEN s
    ELSE LET ev == Head(evs)
             c == keycode_to_char(ev.key_code)
         IN  IF /\ is_pressed(ev)
                /\ c # None
                /\ (is_alphanumeric(c) \/ is_whitespace(c))
             THEN read_events_without_period(push(s, c), Tail(evs))
             ELSE read_events_without_period(s, Tail(evs))

\* Variant of read_events: a Backspace press pops where it arrives in the loop.
RECURSIVE read_events_erasing(_, _)
read_events_erasing(s, evs) ==
    IF evs = <<>> THEN s
    ELSE LET ev == Head(evs)
             c == keycode_to_char(ev.key_code)
         IN  IF ev = Pressed("Backspace")
             THEN read_events_erasing(pop(s), Tail(evs))
             ELSE IF /\ is_pressed(ev)
                     /\ c # None
                     /\ (is_alphanumeric(c) \/ is_whitespace(c) \/ c = ".")
                  THEN read_events_erasing(push(s, c), Tail(evs))
                  ELSE read_events_erasing(s, Tail(evs))

\* The body of `for ev in key_evr.read()`, applied to a string that receives the pushes.
RECURSIVE read_events(_, _)
read_events(s, evs) ==
    IF evs = <<>> THEN s
    ELSE LET ev == Head(evs)
             c == keycode_to_char(ev.key_code)
         IN  IF /\ is_pressed(ev)
                /\ c # None
                /\ (is_alphanumeric(c) \/ is_whitespace(c) \/ c = ".")
             THEN read_events(push(s, c), Tail(evs))
             ELSE read_events(s, Tail(evs))

\* Variant of erase: the buffer is not tested for emptiness.
erase_unguarded(b, l) ==
    IF just_pressed("Backspace")
    THEN <<pop(b), pop(l)>>
    ELSE <<b, l>>

\* Variant of erase: keys.pressed in place of keys.just_pressed.
erase_while_held(b, l) ==
    IF "Backspace" \in keys.pressed /\ b # <<>>
    THEN <<pop(b), pop(l)>>
    ELSE <<b, l>>

\* The erase check of handle_input, on the buffer b and the current line l as the loop left them.
erase(b, l) ==
    IF just_pressed("Backspace") /\ b # <<>>
    THEN <<pop(b), pop(l)>>
    ELSE <<b, l>>

\* Variant of current_line: sections[0] in place of sections[1].
current_line_in_transcript(t, l) ==
    [t EXCEPT ![0] = l]

\* text.sections[1].value as handle_input leaves it
current_line(t, l) ==
    [t EXCEPT ![1] = l]

handle_input ==
    /\ ~exited
    /\ "handle_input" \notin ran
    /\ LET b == read_events(input, key_evr)
           l == read_events(sections[1], key_evr)
           e == erase(b, l)
       IN  /\ input' = e[1]
           /\ sections' = current_line(sections, e[2])
           /\ writers' = Wrote("handle_input", e[1], current_line(sections, e[2]))
    /\ edits' = Edited(edits, key_evr, just_pressed("Backspace"))
    /\ key_evr' = <<>>
    /\ ran' = ran \cup {"handle_input"}
    /\ UNCHANGED <<keys, exited, ticks, submitted>>

\* Variant of response: the responses of "wget data" and "cloak" change places.
response_swapped(cmd) ==
    IF cmd = CmdNmap THEN RespNmap
    ELSE IF cmd = CmdSsh THEN RespSsh
    ELSE IF cmd = CmdExploit THEN RespExploit
    ELSE IF cmd = CmdWget THEN RespCloak
    ELSE IF cmd = CmdCloak THEN RespWget
    ELSE UnknownPrefix \o cmd \o UnknownSuffix

\* Variant of response: the default response leaves the command out.
response_without_cmd(cmd) ==
    IF cmd = CmdNmap THEN RespNmap
    ELSE IF cmd = CmdSsh THEN RespSsh
    ELSE IF cmd = CmdExploit THEN RespExploit
    ELSE IF cmd = CmdWget THEN RespWget
    ELSE IF cmd = CmdCloak THEN RespCloak
    ELSE UnknownPrefix \o UnknownSuffix

\* Variant of response: the chain has a "help" entry that lists the commands.
response_with_help(cmd) ==
    IF cmd = CmdNmap THEN RespNmap
    ELSE IF cmd = CmdSsh THEN RespSsh
    ELSE IF cmd = CmdExploit THEN RespExploit
    ELSE IF cmd = CmdWget THEN RespWget
    ELSE IF cmd = CmdCloak THEN RespCloak
    ELSE IF cmd = Help THEN <<">", " ">> \o CmdNmap \o CmdSsh \o CmdExploit
    ELSE UnknownPrefix \o cmd \o UnknownSuffix

\* The if/else chain of update_terminal; "exit" never yields a response.
response(cmd) ==
    IF cmd = CmdNmap THEN RespNmap
    ELSE IF cmd = CmdSsh THEN RespSsh
    ELSE IF cmd = CmdExploit THEN RespExploit
    ELSE IF cmd = CmdWget THEN RespWget
    ELSE IF cmd = CmdCloak THEN RespCloak
    ELSE UnknownPrefix \o cmd \o UnknownSuffix

\* Variant of exits: cmd.starts_with("exit") in place of cmd == "exit".
exits_on_prefix(cmd) ==
    /\ cmd \notin {CmdNmap, CmdSsh, CmdExploit, CmdWget, CmdCloak}
    /\ Len(cmd) >= Len(CmdExit)
    /\ SubSeq(cmd, 1, Len(CmdExit)) = CmdExit

\* The branch of the chain that calls std::process::exit(0).
exits(cmd) ==
    /\ cmd \notin {CmdNmap, CmdSsh, CmdExploit, CmdWget, CmdCloak}
    /\ cmd = CmdExit

\* Variant of append_response: `=` in place of `+=`.
append_overwrites(transcript, r) ==
    r \o <<"\n">>

\* text.sections[0].value += &format!("{}\n", response)
append_response(transcript, r) ==
    transcript \o r \o <<"\n">>

\* Variant of trim: trim_start alone.
trim_start_only(s) ==
    trim_start(s)

\* str::trim
trim(s) ==
    trim_end(trim_start(s))

\* Variant of submit: the exit test comes after the three assignments.
submit_exit_late(cmd) ==
    [sections |-> [sections EXCEPT ![0] = append_response(@, response(cmd)),
                                   ![1] = Prompt],
     input    |-> <<>>,
     exited   |-> exits(cmd)]

\* Variant of submit: the buffer is not cleared.
submit_keeps_input(cmd) ==
    IF exits(cmd)
    THEN [sections |-> sections, input |-> input, exited |-> TRUE]
    ELSE [sections |-> [sections EXCEPT ![0] = append_response(@, response(cmd)),
                                        ![1] = Prompt],
          input    |-> input,
          exited   |-> FALSE]

\* The body of update_terminal's if, for the trimmed command cmd: what it leaves
\* in the text sections and the buffer, and whether the process has exited.
submit(cmd) ==
    IF exits(cmd)
    THEN [sections |-> sections, input |-> input, exited |-> TRUE]
    ELSE [sections |-> [sections EXCEPT ![0] = append_response(@, response(cmd)),
                                        ![1] = Prompt],
          input    |-> <<>>,
          exited   |-> FALSE]

\* Variant of submits: the trimmed buffer is tested for emptiness.
submits_on_trimmed ==
    just_pressed("Enter") /\ trim(input) # <<>>

\* Variant of submits: the buffer is not tested for emptiness.
submits_on_empty ==
    just_pressed("Enter")

\* The condition of update_terminal's if.
submits ==
    just_pressed("Enter") /\ input # <<>>

update_terminal ==
    /\ ~exited
    /\ "update_terminal" \notin ran
    /\ IF submits
       THEN LET after == submit(trim(input))
            IN  /\ sections' = after.sections
                /\ input' = after.input
                /\ exited' = after.exited
                /\ ran' = IF after.exited THEN ran ELSE ran \cup {"update_terminal"}
                /\ submitted' = input
                /\ edits' = IF after.exited THEN edits ELSE NoEdits
                /\ writers' = Wrote("update_terminal", after.input, after.sections)
       ELSE /\ ran' = ran \cup {"update_terminal"}
            /\ UNCHANGED <<input, sections, exited, submitted, edits, writers>>
    /\ UNCHANGED <<keys, key_evr, ticks>>

Next ==
    \/ keyboard_input
    \/ handle_input
    \/ update_terminal

Spec ==
    Init /\ [][Next]_vars

(***************************************************************************)
(* The vocabulary of the specification.                                    *)
(***************************************************************************)
LineBuffer == input

Transcript == sections[0]

CurrentLine == sections[1]

PromptMarker ==
    <<">", " ">>

Newline ==
    <<"\n">>

\* s without its leading and trailing spaces.
Strip(s) ==
    LET solid == {i \in 1..Len(s) : s[i] # " "}
    IN  IF solid = {} THEN <<>>
        ELSE SubSeq(s, CHOOSE i \in solid : \A j \in solid : i <= j,
                       CHOOSE i \in solid : \A j \in solid : i >= j)

Front(s) ==
    SubSeq(s, 1, Len(s) - 1)

IsPrefix(s, t) ==
    Len(s) <= Len(t) /\ SubSeq(t, 1, Len(s)) = s

\* The response entries of the command table, and all its command names.
ResponseEntries ==
    { <<CmdNmap, RespNmap>>, <<CmdSsh, RespSsh>>, <<CmdExploit, RespExploit>>,
      <<CmdWget, RespWget>>, <<CmdCloak, RespCloak>> }

CommandNames ==
    {e[1] : e \in ResponseEntries} \cup {CmdExit}

UnknownResponse(candidate) ==
    UnknownPrefix \o candidate \o UnknownSuffix

\* Steps and conditions of a frame.
FreshSubmit == "Enter" \in keys.just_pressed

FreshErase == "Backspace" \in keys.just_pressed

HandleInputRuns ==
    "handle_input" \notin ran /\ "handle_input" \in ran'

UpdateTerminalReturns ==
    "update_terminal" \notin ran /\ "update_terminal" \in ran'

ProcessExits ==
    ~exited /\ exited'

UpdateTerminalRuns ==
    UpdateTerminalReturns \/ ProcessExits

(***************************************************************************)
(* The claims.                                                             *)
(***************************************************************************)

\* C1: in every reachable state, whichever systems have run, the current line
\* is the prompt marker "> " followed by exactly the content of the line buffer.
C1_Mirroring ==
    CurrentLine = PromptMarker \o LineBuffer

\* A state after typing, a submit and a fresh erase, the buffer not empty.
C1_Witness ==
    /\ ran = Systems
    /\ FreshErase
    /\ submitted # <<>>
    /\ LineBuffer = <<"f", "o">>

\* C2: with no fresh erase, a run of handle_input appends to the line buffer the
\* mapped characters of all the frame's pressed events, in arrival order, and
\* between such runs only a submit changes the buffer: typing accumulates
\* without loss or reordering over any number of frames.
C2_Accumulation ==
    [][ /\ (HandleInputRuns /\ ~FreshErase)
           => LineBuffer' = LineBuffer \o TypedChars(key_evr)
        /\ (~HandleInputRuns /\ ~(UpdateTerminalRuns /\ FreshSubmit))
           => LineBuffer' = LineBuffer ]_vars

\* Two frames of typing on an empty buffer, no erase and no submit.
C2_Witness ==
    /\ LineBuffer = Foo \o CmdWget
    /\ submitted = <<>>
    /\ keys.pressed = {}
    /\ ticks = 2

\* C3: a run of update_terminal on a fresh submit press with a buffer that
\* trims to a command of a response entry appends exactly that entry's response
\* and "\n" to the transcript, sets the current line to "> " and empties the buffer.
C3_KnownCommand ==
    [][ \A e \in ResponseEntries :
          (UpdateTerminalRuns /\ FreshSubmit /\ Strip(LineBuffer) = e[1])
          => /\ Transcript' = Transcript \o e[2] \o Newline
             /\ CurrentLine' = PromptMarker
             /\ LineBuffer' = <<>> ]_vars

\* "exploit" then "nmap neotechlabs.com" were submitted.
C3_Witness ==
    /\ Transcript = InitialTranscript \o RespExploit \o Newline \o RespNmap \o Newline
    /\ submitted = CmdNmap
    /\ CurrentLine = PromptMarker
    /\ LineBuffer = <<>>

\* C4: a run of update_terminal on a fresh submit press with a non-empty buffer
\* that trims to no command of the table appends exactly
\* "> Unknown command: {candidate}. Type 'help' for options.\n", candidate the
\* trimmed buffer, sets the current line to "> ", empties the buffer, and the
\* process does not exit.
C4_UnknownCommand ==
    [][ (/\ UpdateTerminalRuns
         /\ FreshSubmit
         /\ LineBuffer # <<>>
         /\ Strip(LineBuffer) \notin CommandNames)
        => /\ Transcript' = Transcript \o UnknownResponse(Strip(LineBuffer)) \o Newline
           /\ CurrentLine' = PromptMarker
           /\ LineBuffer' = <<>>
           /\ ~exited' ]_vars

\* "foo" was submitted.
C4_Witness ==
    /\ submitted = Foo
    /\ Transcript = InitialTranscript \o UnknownResponse(Foo) \o Newline
    /\ CurrentLine = PromptMarker
    /\ LineBuffer = <<>>
    /\ ~exited

\* C5: a submit of a buffer b whose trimmed form t is not empty has the outcome
\* of a submit of t: the process exits if t is the exit command, and otherwise
\* the transcript gains the response of t, matched exactly, and "\n".
C5_Trimming ==
    [][ (UpdateTerminalRuns /\ FreshSubmit /\ Strip(LineBuffer) # <<>>)
        => LET t == Strip(LineBuffer)
           IN  IF exits(trim(t))
               THEN exited'
               ELSE /\ ~exited'
                    /\ Transcript' = Transcript \o response(trim(t)) \o Newline
                    /\ (t \notin CommandNames
                          => Transcript' = Transcript \o UnknownResponse(t) \o Newline) ]_vars

\* " exploit " was submitted and answered as "exploit" is.
C5_Witness ==
    /\ submitted = <<" ">> \o CmdExploit \o <<" ">>
    /\ Transcript = InitialTranscript \o RespExploit \o Newline

\* C6: a run of update_terminal on a fresh submit press with a buffer that trims
\* to "exit" exits the process and leaves transcript, current line and buffer as
\* they were; after the exit there is no further transition.
C6_ExitBeforeMutation ==
    [][ /\ (UpdateTerminalRuns /\ FreshSubmit /\ Strip(LineBuffer) = CmdExit)
           => (exited' /\ UNCHANGED <<Transcript, CurrentLine, LineBuffer>>)
        /\ exited => UNCHANGED vars ]_vars

\* The process has exited on " exit", with nothing appended and nothing reset.
C6_Witness ==
    /\ exited
    /\ LineBuffer = <<" ">> \o CmdExit
    /\ CurrentLine = PromptMarker \o <<" ">> \o CmdExit
    /\ Transcript = InitialTranscript

\* C7: the process exits only in a run of update_terminal on a fresh submit
\* press with a buffer that trims to exactly "exit", and such a run always
\* exits; no other step (frame start, handle_input, an empty, known or unknown
\* submit) exits the process.
C7_ExitOnlyOnExitCommand ==
    [][ /\ ProcessExits
           => /\ "update_terminal" \notin ran
              /\ ran' = ran /\ ticks' = ticks
              /\ FreshSubmit
              /\ Strip(LineBuffer) = CmdExit
        /\ (UpdateTerminalReturns /\ FreshSubmit) => Strip(LineBuffer) # CmdExit ]_vars

\* The process has exited after an earlier submit that did not exit it.
C7_Witness ==
    /\ exited
    /\ Transcript # InitialTranscript
    /\ Strip(LineBuffer) = CmdExit

\* C8: over every step the old transcript is a prefix of the new one; it changes
\* only in a run of update_terminal that returns, on a fresh submit press with a
\* non-empty buffer, and then grows by one response and "\n"; handle_input
\* never changes it.
C8_AppendOnly ==
    [][ /\ IsPrefix(Transcript, Transcript')
        /\ Transcript' # Transcript
           => /\ UpdateTerminalReturns
              /\ FreshSubmit
              /\ LineBuffer # <<>>
              /\ \E r \in {e[2] : e \in ResponseEntries}
                          \cup {UnknownResponse(Strip(LineBuffer))} :
                   Transcript' = Transcript \o r \o Newline
        /\ HandleInputRuns => Transcript' = Transcript ]_vars

\* The transcript has grown twice.
C8_Witness ==
    Transcript = InitialTranscript \o RespExploit \o Newline
                   \o UnknownResponse(Help) \o Newline

\* C9: a run of update_terminal on a fresh submit press with an empty buffer
\* changes neither transcript, current line nor buffer, and does not exit.
C9_EmptySubmitNoOp ==
    [][ (UpdateTerminalRuns /\ FreshSubmit /\ LineBuffer = <<>>)
        => (UNCHANGED <<Transcript, CurrentLine, LineBuffer>> /\ ~exited') ]_vars

\* In the third frame update_terminal has run first, on a fresh submit press and
\* an empty buffer, and nothing was ever submitted.
C9_Witness ==
    /\ ran = {"update_terminal"}
    /\ FreshSubmit
    /\ LineBuffer = <<>>
    /\ submitted = <<>>
    /\ Transcript = InitialTranscript
    /\ CurrentLine = PromptMarker
    /\ ticks = 3

\* C10: a run of handle_input in a frame with a fresh erase press removes exactly
\* the last character of the non-empty buffer and of the current line, and a run
\* in a frame without one (the key up, or merely still held) removes nothing.
C10_EraseEdgeTriggered ==
    [][ HandleInputRuns
        => LET b == LineBuffer \o TypedChars(key_evr)
               l == CurrentLine \o TypedChars(key_evr)
           IN  /\ (FreshErase /\ b # <<>>)
                  => (LineBuffer' = Front(b) /\ CurrentLine' = Front(l))
               /\ ~FreshErase
                  => (LineBuffer' = b /\ CurrentLine' = l) ]_vars

\* The erase key is still held in a frame after its press, and handle_input has
\* run in it: one character of "foo" is gone, not two.
C10_Witness ==
    /\ "Backspace" \in keys.pressed
    /\ ~FreshErase
    /\ "handle_input" \in ran
    /\ ticks >= 2
    /\ LineBuffer = <<"f", "o">>
    /\ submitted = <<>>

\* C11: a run of handle_input on a fresh erase press with a buffer that is
\* empty after the frame's typing leaves the buffer empty and the current line
\* "> ", and the transcript as it was.
C11_EraseOnEmptyNoOp ==
    [][ (HandleInputRuns /\ FreshErase /\ LineBuffer \o TypedChars(key_evr) = <<>>)
        => /\ LineBuffer' = <<>>
           /\ CurrentLine' = PromptMarker
           /\ Transcript' = Transcript ]_vars

\* In the second frame handle_input has run on a second fresh erase press; the
\* buffer was never typed into.
C11_Witness ==
    /\ "handle_input" \in ran
    /\ FreshErase
    /\ ticks = 2
    /\ edits = [typed |-> <<>>, erases |-> 2, ordered |-> TRUE]
    /\ LineBuffer = <<>>
    /\ CurrentLine = PromptMarker
    /\ Transcript = InitialTranscript

\* C12: after N mapped character presses on an empty buffer followed by M <= N
\* fresh erase presses, with no submit in between, the buffer holds exactly the
\* first N - M characters typed.
C12_TypeThenErase ==
    (edits.ordered /\ edits.erases <= Len(edits.typed))
    => LineBuffer = SubSeq(edits.typed, 1, Len(edits.typed) - edits.erases)

\* "foo" was typed and two erase presses followed in later frames.
C12_Witness ==
    /\ edits = [typed |-> Foo, erases |-> 2, ordered |-> TRUE]
    /\ ticks = 3
    /\ LineBuffer = <<"f">>

\* C13: a released event and a pressed event of a key outside the table type
\* nothing, so a run of handle_input in a frame of such events alone, with no
\* fresh erase, leaves buffer, current line and transcript as they were; and
\* every key of the table passes the filter, so a run appends one character for
\* each mapped press of the frame.
C13_IgnoredInput ==
    [][ HandleInputRuns
        => /\ (TypedChars(key_evr) = <<>> /\ ~FreshErase)
              => UNCHANGED <<LineBuffer, CurrentLine, Transcript>>
           /\ ~FreshErase
              => Len(LineBuffer') = Len(LineBuffer)
                   + Cardinality({i \in 1..Len(key_evr) : IsMappedPress(key_evr[i])})
           /\ \A i \in 1..Len(TableKeys) :
                /\ read_events(<<>>, <<Pressed(TableKeys[i])>>) = <<TableChars[i]>>
                /\ read_events(<<>>, <<Released(TableKeys[i])>>) = <<>>
           /\ \A k \in {"Enter", "Backspace", "ShiftLeft", "Escape", "Tab", "Comma"} :
                /\ read_events(<<>>, <<Pressed(k)>>) = <<>>
                /\ read_events(<<>>, <<Released(k)>>) = <<>> ]_vars

\* The frame KeyA pressed, KeyA released, ShiftLeft pressed, Digit7 pressed has
\* typed "a7": one character for each mapped press, none for the other events.
C13_Witness ==
    /\ "handle_input" \in ran
    /\ ticks = 1
    /\ LineBuffer = <<"a", "7">>
    /\ CurrentLine = PromptMarker \o <<"a", "7">>
    /\ Transcript = InitialTranscript

\* C14: in every tick accumulation takes effect before the submit check, so a
\* fresh submit press observes the buffer as that tick's insertions and erase
\* leave it: a tick with a fresh submit press ends with the buffer submitted,
\* hence empty, or with the process exited; the press is never lost on
\* characters typed in the same tick.
C14_SubmitSeesAccumulation ==
    (ran = Systems /\ FreshSubmit /\ ~exited) => LineBuffer = <<>>

\* C15, as claimed: in every tick each of LineBuffer, Transcript and CurrentLine
\* is changed by one system only, never by both.
C15_SingleWriterPerTick ==
    \A r \in Regions : Cardinality(writers[r]) <= 1

\* C15, amended: the transcript is changed by update_terminal only; every change
\* of buffer or current line is made by the run of exactly one system, and a
\* system runs at most once per tick, so the two never write at once, though
\* both may change buffer and current line within one tick.
C15_OneWriterAtATime ==
    [][ /\ Transcript' # Transcript => (UpdateTerminalReturns /\ ~HandleInputRuns)
        /\ (LineBuffer' # LineBuffer \/ CurrentLine' # CurrentLine)
           => (HandleInputRuns # UpdateTerminalReturns)
        /\ ran \subseteq ran' \/ (ran = Systems /\ ran' = {} /\ ticks' = ticks + 1)
        /\ writers'["Transcript"] \subseteq {"update_terminal"}
        /\ \A r \in Regions : writers'[r] \subseteq ran' ]_vars

\* A tick in which both systems have changed the buffer and the current line.
C15_Witness ==
    /\ ran = Systems
    /\ writers = [r \in Regions |->
                    IF r = "Transcript" THEN {"update_terminal"} ELSE Systems]

\* C16: a run of handle_input in a tick with k >= 1 mapped character presses
\* and a fresh erase press leaves the old buffer followed by the first k - 1
\* characters of the tick, in arrival order, wherever the erase press fell
\* among the character events: the erase check runs once, after the insertions.
C16_InsertionsBeforeErase ==
    [][ (HandleInputRuns /\ FreshErase /\ TypedChars(key_evr) # <<>>)
        => /\ LineBuffer' = LineBuffer \o Front(TypedChars(key_evr))
           /\ CurrentLine' = CurrentLine \o Front(TypedChars(key_evr)) ]_vars

\* "foo" arrived in one frame with the erase press before its characters, on a
\* buffer that held "help": "helpfo" is left.
C16_Witness ==
    /\ "handle_input" \in ran
    /\ FreshErase
    /\ edits = [typed |-> Help \o Foo, erases |-> 1, ordered |-> FALSE]
    /\ LineBuffer = Help \o <<"f", "o">>
    /\ submitted = <<>>

\* C17: the buffer is empty initially; it turns from empty to non-empty only in
\* a run of handle_input with a mapped character press; it turns from non-empty
\* to empty only by an erase of its single character or in a run of
\* update_terminal on a fresh submit press; characters keep a non-empty buffer
\* non-empty; every submit on a non-empty buffer that returns leaves it empty;
\* after the exit nothing happens, and before it the program can always step.
C17_IdleAccumulating ==
    /\ LineBuffer = <<>>
    /\ [][ /\ (LineBuffer = <<>> /\ LineBuffer' # <<>>)
              => (HandleInputRuns /\ TypedChars(key_evr) # <<>>)
           /\ (LineBuffer # <<>> /\ LineBuffer' = <<>>)
              => \/ /\ HandleInputRuns
                    /\ FreshErase
                    /\ Len(LineBuffer) = 1
                    /\ TypedChars(key_evr) = <<>>
                 \/ UpdateTerminalReturns /\ FreshSubmit
           /\ (HandleInputRuns /\ LineBuffer # <<>> /\ TypedChars(key_evr) # <<>>)
              => LineBuffer' # <<>>
           /\ (UpdateTerminalReturns /\ FreshSubmit /\ LineBuffer # <<>>)
              => LineBuffer' = <<>>
           /\ ~exited ]_vars
    /\ [](~exited /\ (ticks < MaxTicks \/ ran # Systems) => ENABLED Next)

\* A space was typed and then erased: the buffer is empty again, with nothing
\* submitted.
C17_Witness ==
    /\ edits = [typed |-> <<" ">>, erases |-> 1, ordered |-> TRUE]
    /\ LineBuffer = <<>>
    /\ CurrentLine = PromptMarker
    /\ submitted = <<>>
    /\ ran = Systems

\* C18: a run of update_terminal on a fresh submit press with a non-empty
\* buffer of space characters only appends
\* "> Unknown command: . Type 'help' for options.\n" to the transcript, sets
\* the current line to "> ", empties the buffer and does not exit.
C18_WhitespaceOnlySubmit ==
    [][ (/\ UpdateTerminalRuns
         /\ FreshSubmit
         /\ LineBuffer # <<>>
         /\ \A i \in 1..Len(LineBuffer) : LineBuffer[i] = " ")
        => /\ Transcript' = Transcript \o
                <<">", " ", "U", "n", "k", "n", "o", "w", "n", " ", "c", "o", "m",
                  "m", "a", "n", "d", ":", " ", ".", " ", "T", "y", "p", "e", " ",
                  "'", "h", "e", "l", "p", "'", " ", "f", "o", "r", " ", "o", "p",
                  "t", "i", "o", "n", "s", ".", "\n">>
           /\ CurrentLine' = PromptMarker
           /\ LineBuffer' = <<>>
           /\ ~exited' ]_vars

\* Two spaces were submitted.
C18_Witness ==
    /\ submitted = <<" ", " ">>
    /\ Transcript = InitialTranscript \o UnknownPrefix \o UnknownSuffix \o Newline
    /\ CurrentLine = PromptMarker
    /\ LineBuffer = <<>>

\* The press events of the key table's keys that spell the text t.
TableTyping(t) ==
    [i \in 1..Len(t) |->
        Pressed(TableKeys[CHOOSE j \in 1..Len(TableChars) : TableChars[j] = t[i]])]

\* C19: every command of the table is spelt with characters of the key table;
\* the presses of the keys that spell it are a frame the keyboard can deliver,
\* a run of handle_input on them with an empty buffer leaves the command in
\* the buffer, and a run of update_terminal on a fresh submit press with the
\* command in the buffer has the command's outcome: its response appended, or
\* the exit.
C19_CommandsTypable ==
    [][ \A cmd \in CommandNames :
          /\ \A i \in 1..Len(cmd) : \E j \in 1..Len(TableChars) : TableChars[j] = cmd[i]
          /\ \A i \in 1..Len(cmd) :
               keycode_to_char(TableTyping(cmd)[i].key_code) = cmd[i]
          /\ TableTyping(cmd) \in FrameInputs
          /\ read_events(<<>>, TableTyping(cmd)) = cmd
          /\ (HandleInputRuns /\ LineBuffer = <<>> /\ ~FreshErase
                /\ key_evr = TableTyping(cmd))
             => LineBuffer' = cmd
          /\ (UpdateTerminalRuns /\ FreshSubmit /\ LineBuffer = cmd)
             => IF cmd = CmdExit
                THEN exited'
                ELSE \E e \in ResponseEntries :
                        /\ e[1] = cmd
                        /\ Transcript' = Transcript \o e[2] \o Newline
                        /\ ~exited' ]_vars

\* "exploit" then "ssh neotechlabs.com", typed key by key, were submitted and
\* answered.
C19_Witness ==
    /\ Transcript = InitialTranscript \o RespExploit \o Newline \o RespSsh \o Newline
    /\ submitted = CmdSsh
    /\ ~exited

\* C20: "help" is no command of the table, and a run of update_terminal on a
\* fresh submit press with a buffer that trims to "help" appends exactly
\* "> Unknown command: help. Type 'help' for options.\n" to the transcript,
\* and no list of options.
C20_HelpIsUnknown ==
    [][ /\ Help \notin CommandNames
        /\ (UpdateTerminalRuns /\ FreshSubmit /\ Strip(LineBuffer) = Help)
           => /\ Transcript' = Transcript \o
                   <<">", " ", "U", "n", "k", "n", "o", "w", "n", " ", "c", "o",
                     "m", "m", "a", "n", "d", ":", " ", "h", "e", "l", "p", ".",
                     " ", "T", "y", "p", "e", " ", "'", "h", "e", "l", "p", "'",
                     " ", "f", "o", "r", " ", "o", "p", "t", "i", "o", "n", "s",
                     ".", "\n">>
              /\ ~exited' ]_vars

\* "help" was submitted first and answered as an unknown command.
C20_Witness ==
    /\ submitted = Help
    /\ Transcript = InitialTranscript \o UnknownResponse(Help) \o Newline
    /\ LineBuffer = <<>>
    /\ ticks = 2

====
